---------------------------- MODULE Spec2Model ----------------------------
(***************************************************************************)
(* A model of the book sharing platform: the SQLite tables as variables,   *)
(* one action per manager method or API handler, and the read-only queries *)
(* (recommendations, similar books, leaderboard) as operators over the     *)
(* tables.                                                                 *)
(*                                                                         *)
(* Dates are day numbers.  datetime.now().strftime('%Y-%m-%d') is the      *)
(* variable today; (now - strptime(last)).days is today - last, because    *)
(* the parsed date is a midnight and timedelta.days is the floor.          *)
(*                                                                         *)
(* An Optional value (a nullable column, a None argument or return) is a   *)
(* sequence of length 0 or 1: <<>> is NULL/None, <<v>> is the value v.     *)
(***************************************************************************)
EXTENDS Integers, Sequences, FiniteSets, Bags, TLC

\* The processes that may run update_reading_stats at the same time.
Procs == {"p1", "p2"}

VARIABLES
    today,              \* the current date, datetime.now()
    available,          \* books.available, per book_id
    borrowing_records,  \* table borrowing_records, in record_id order
    reading_history,    \* table reading_history, in history_id order
    user_stats,         \* table user_stats, keyed by user_id
    calls,              \* the update_reading_stats calls in flight, per process
    response            \* what the last finished call returned

vars == <<today, available, borrowing_records, reading_history, user_stats,
          calls, response>>

----------------------------------------------------------------------------
(* Bounds of the model. *)

\* The last day the clock reaches.
MaxDay == 9

\* The most completions one reader's stats record counts.
MaxBooks == 8

\* The most rows of borrowing_records.
MaxRecords == 2

\* The most rows of reading_history while books are borrowed and returned.
MaxRatings == 1

\* The most rows of reading_history while only ratings are given.
MaxHistory == 3

\* The last day the clock reaches while the leaderboard is watched.
MaxBoardDay == 3

\* The most completions per reader while the leaderboard is watched.
MaxBoardBooks == 3

\* The last day the clock reaches while two processes update the stats.
MaxConcDay == 3

\* The largest limit a query is asked with.
MaxLimit == 3

MaxApiDay == 3

MaxApiRows == 3

MaxPeerRows == 4

MaxEvents == 3

MaxBadgeSteps == 2

MaxBadgeGap == 2

None == <<>>

Some(v) == <<v>>

----------------------------------------------------------------------------
(* The users and books tables.  Registration and add_book run before the   *)
(* operations modelled here (main.py steps 1 to 3) and no operation below  *)
(* changes these tables except books.available.                            *)

users ==
    [u \in 1..5 |->
        CASE u = 1 -> [name |-> "Rajesh", user_type |-> "parent",
                       community_name |-> "Green Valley", age |-> None]
          [] u = 2 -> [name |-> "Aarav", user_type |-> "child",
                       community_name |-> "Green Valley", age |-> Some(10)]
          [] u = 3 -> [name |-> "Diya", user_type |-> "child",
                       community_name |-> "Green Valley", age |-> Some(11)]
          [] u = 4 -> [name |-> "Amit", user_type |-> "parent",
                       community_name |-> "Lake View", age |-> None]
          [] u = 5 -> [name |-> "Rohan", user_type |-> "child",
                       community_name |-> "Lake View", age |-> Some(10)]]

UserIds == DOMAIN users

Children == {u \in UserIds : users[u].user_type = "child"}

\* The books table without its available column.  Book 5 belongs to the
\* other community and book 6 to another age group.
books ==
    [b \in 1..6 |->
        CASE b = 1 -> [author |-> "Rowling", genre |-> "Fantasy", age_group |-> "9-12", owner_id |-> 1]
          [] b = 2 -> [author |-> "Rowling", genre |-> "Fantasy", age_group |-> "9-12", owner_id |-> 1]
          [] b = 3 -> [author |-> "Riordan", genre |-> "Fantasy", age_group |-> "9-12", owner_id |-> 1]
          [] b = 4 -> [author |-> "Sagan",   genre |-> "Science", age_group |-> "9-12", owner_id |-> 1]
          [] b = 5 -> [author |-> "Rowling", genre |-> "Science", age_group |-> "9-12", owner_id |-> 4]
          [] b = 6 -> [author |-> "Rowling", genre |-> "Fantasy", age_group |-> "5-8",  owner_id |-> 1]]

BookIds == DOMAIN books

\* An id that is in neither table.
NoSuchId == 0

\* A plausible bug: a new reader starts with a welcome bonus.
StarterStats ==
    [total_books_read   |-> 0,
     current_streak     |-> 0,
     longest_streak     |-> 0,
     total_points       |-> 10,
     badges             |-> <<>>,
     last_activity_date |-> None]

\* The user_stats row register_child inserts: the column defaults and '[]'.
ZeroStats ==
    [total_books_read   |-> 0,
     current_streak     |-> 0,
     longest_streak     |-> 0,
     total_points       |-> 0,
     badges             |-> <<>>,
     last_activity_date |-> None]

----------------------------------------------------------------------------
(* gamification.py: update_reading_stats and _check_badges.                *)

Contains(seq, x) == \E i \in 1..Len(seq) : seq[i] = x

AppendIf(seq, cond, x) == IF cond /\ ~Contains(seq, x) THEN Append(seq, x) ELSE seq

\* A plausible bug: an elif chain, so one call awards one badge at most.
CheckBadgesFirstOnly(user_id, total_books, current_streak, current_badges) ==
    IF total_books >= 1 /\ ~Contains(current_badges, "first_book")
        THEN Append(current_badges, "first_book")
    ELSE IF current_streak >= 7 /\ ~Contains(current_badges, "week_streak")
        THEN Append(current_badges, "week_streak")
    ELSE IF current_streak >= 30 /\ ~Contains(current_badges, "month_streak")
        THEN Append(current_badges, "month_streak")
    ELSE IF total_books >= 10 /\ ~Contains(current_badges, "bookworm")
        THEN Append(current_badges, "bookworm")
    ELSE IF total_books >= 25 /\ ~Contains(current_badges, "scholar")
        THEN Append(current_badges, "scholar")
    ELSE IF total_books >= 50 /\ ~Contains(current_badges, "genius")
        THEN Append(current_badges, "genius")
    ELSE current_badges

\* A plausible bug: the book counts must be exceeded, not reached.
CheckBadgesStrict(user_id, total_books, current_streak, current_badges) ==
    LET b1 == AppendIf(current_badges, total_books >= 1, "first_book")
        b2 == AppendIf(b1, current_streak >= 7, "week_streak")
        b3 == AppendIf(b2, current_streak >= 30, "month_streak")
        b4 == AppendIf(b3, total_books > 10, "bookworm")
        b5 == AppendIf(b4, total_books > 25, "scholar")
    IN  AppendIf(b5, total_books > 50, "genius")

\* A plausible bug: the badge list is rebuilt from the predicates alone.
CheckBadgesRebuilt(user_id, total_books, current_streak, current_badges) ==
    LET b1 == AppendIf(<<>>, total_books >= 1, "first_book")
        b2 == AppendIf(b1, current_streak >= 7, "week_streak")
        b3 == AppendIf(b2, current_streak >= 30, "month_streak")
        b4 == AppendIf(b3, total_books >= 10, "bookworm")
        b5 == AppendIf(b4, total_books >= 25, "scholar")
    IN  AppendIf(b5, total_books >= 50, "genius")

\* _check_badges: a copy of the current list, each earned badge appended once.
_check_badges(user_id, total_books, current_streak, current_badges) ==
    LET b1 == AppendIf(current_badges, total_books >= 1, "first_book")
        b2 == AppendIf(b1, current_streak >= 7, "week_streak")
        b3 == AppendIf(b2, current_streak >= 30, "month_streak")
        b4 == AppendIf(b3, total_books >= 10, "bookworm")
        b5 == AppendIf(b4, total_books >= 25, "scholar")
    IN  AppendIf(b5, total_books >= 50, "genius")

\* A plausible bug: a second completion on the same day extends the streak.
NewStreakSameDayCounts(stats, now) ==
    IF stats.last_activity_date # None
    THEN LET days_diff == now - stats.last_activity_date[1]
         IN  IF days_diff <= 1 THEN stats.current_streak + 1
             ELSE 1
    ELSE 1

\* A plausible bug: a second completion on the same day restarts the streak.
NewStreakSameDayResets(stats, now) ==
    IF stats.last_activity_date # None
    THEN LET days_diff == now - stats.last_activity_date[1]
         IN  IF days_diff = 1 THEN stats.current_streak + 1
             ELSE 1
    ELSE 1

\* A plausible bug: any gap of a day or more extends the streak.
NewStreakNoReset(stats, now) ==
    IF stats.last_activity_date # None
    THEN LET days_diff == now - stats.last_activity_date[1]
         IN  IF days_diff >= 1 THEN stats.current_streak + 1
             ELSE stats.current_streak
    ELSE 1

\* A plausible bug: a gap restarts the streak at 0, not at 1.
NewStreakResetsToZero(stats, now) ==
    IF stats.last_activity_date # None
    THEN LET days_diff == now - stats.last_activity_date[1]
         IN  IF days_diff = 1 THEN stats.current_streak + 1
             ELSE IF days_diff > 1 THEN 0
             ELSE stats.current_streak
    ELSE 1

\* Lines 65-76: the streak after a completion on day now.
NewStreak(stats, now) ==
    IF stats.last_activity_date # None
    THEN LET days_diff == now - stats.last_activity_date[1]
         IN  IF days_diff = 1 THEN stats.current_streak + 1
             ELSE IF days_diff > 1 THEN 1
             ELSE stats.current_streak
    ELSE 1

\* A plausible bug: the longest streak is never raised.
NewLongestStale(current_streak, longest_streak) == longest_streak

\* Lines 78-80.
NewLongest(current_streak, longest_streak) ==
    IF current_streak > longest_streak THEN current_streak ELSE longest_streak

\* A plausible bug: the streak bonus is the streak, not twice the streak.
PointsEarnedSingle(current_streak) == 10 + current_streak

\* Lines 82-84: base_points + streak_bonus.
PointsEarned(current_streak) == 10 + current_streak * 2

\* A plausible bug: = instead of +=.
NewTotalAssigned(total_points, points_earned) == points_earned

\* Line 85.
NewTotal(total_points, points_earned) == total_points + points_earned

\* Lines 58-89: everything update_reading_stats computes from the row it read.
ComputeStats(user_id, stats, now) ==
    LET total_books    == stats.total_books_read + 1
        current_streak == NewStreak(stats, now)
        longest_streak == NewLongest(current_streak, stats.longest_streak)
        points_earned  == PointsEarned(current_streak)
        total_points   == NewTotal(stats.total_points, points_earned)
        new_badges     == _check_badges(user_id, total_books, current_streak, stats.badges)
    IN  [total_books    |-> total_books,
         current_streak |-> current_streak,
         longest_streak |-> longest_streak,
         points_earned  |-> points_earned,
         total_points   |-> total_points,
         new_badges_list |-> new_badges,
         newly_earned   |-> SelectSeq(new_badges, LAMBDA b : ~Contains(stats.badges, b))]

\* Lines 91-101: the row the UPDATE writes, dated by a second datetime.now().
WrittenStats(c, now) ==
    [total_books_read   |-> c.total_books,
     current_streak     |-> c.current_streak,
     longest_streak     |-> c.longest_streak,
     total_points       |-> c.total_points,
     badges             |-> c.new_badges_list,
     last_activity_date |-> Some(now)]

\* Lines 116-123: the dictionary returned.
StatsDelta(c) ==
    [points_earned  |-> c.points_earned,
     total_points   |-> c.total_points,
     new_badges     |-> c.newly_earned,
     current_streak |-> c.current_streak,
     longest_streak |-> c.longest_streak,
     total_books    |-> c.total_books]

\* A plausible bug: a missing row is created and then updated.
StatsAfterUpsert(table, user_id, now) ==
    IF user_id \in DOMAIN table
    THEN [table EXCEPT ![user_id] = WrittenStats(ComputeStats(user_id, table[user_id], now), now)]
    ELSE [u \in DOMAIN table \cup {user_id} |->
            IF u = user_id THEN WrittenStats(ComputeStats(user_id, ZeroStats, now), now)
            ELSE table[u]]

\* The user_stats table after update_reading_stats(user_id) ran alone.
StatsAfterUpdate(table, user_id, now) ==
    IF user_id \in DOMAIN table
    THEN [table EXCEPT ![user_id] = WrittenStats(ComputeStats(user_id, table[user_id], now), now)]
    ELSE table

\* What update_reading_stats(user_id) returns: None when there is no row.
UpdateResult(table, user_id, now) ==
    IF user_id \in DOMAIN table
    THEN Some(StatsDelta(ComputeStats(user_id, table[user_id], now)))
    ELSE None

----------------------------------------------------------------------------
(* Helpers: Python truthiness and slices, SQL LIMIT and ORDER BY, exact    *)
(* fractions for the float scores.                                         *)

Min(a, b) == IF a <= b THEN a ELSE b

Max(a, b) == IF a >= b THEN a ELSE b

\* "if rating:" is false for None and for 0.
Truthy(opt) == opt # None /\ opt[1] # 0

\* A plausible bug: the slice keeps one item more.
SliceOneMore(seq, limit) ==
    IF limit >= 0 THEN SubSeq(seq, 1, Min(limit + 1, Len(seq)))
    ELSE SubSeq(seq, 1, Max(0, Len(seq) + limit))

\* seq[:limit]: a negative limit drops that many items from the end.
Slice(seq, limit) ==
    IF limit >= 0 THEN SubSeq(seq, 1, Min(limit, Len(seq)))
    ELSE SubSeq(seq, 1, Max(0, Len(seq) + limit))

\* LIMIT ?: a negative limit is no limit in SQLite.
SqlLimit(seq, limit) ==
    IF limit < 0 THEN seq ELSE SubSeq(seq, 1, Min(limit, Len(seq)))

\* The orders in which a SELECT without ORDER BY may return the rows S.
Perms(S) ==
    {p \in [1..Cardinality(S) -> S] : \A i, j \in DOMAIN p : i # j => p[i] # p[j]}

\* ORDER BY key DESC: every order of S with non-increasing keys, key being
\* the sort column as a function of the row.
OrderByDesc(S, key) ==
    {p \in Perms(S) : \A i, j \in DOMAIN p : i < j => key[p[i]] >= key[p[j]]}

\* A score n/d with d > 0; the floats of the code are these fractions.
Frac(n, d) == <<n, d>>

FracAdd(a, b) == <<a[1] * b[2] + b[1] * a[2], a[2] * b[2]>>

FracEq(a, b) == a[1] * b[2] = b[1] * a[2]

FracLess(a, b) == a[1] * b[2] < b[1] * a[2]

RECURSIVE SumRatings(_)
\* The sum of the ratings of a sequence of reading_history rows.
SumRatings(rows) ==
    IF rows = <<>> THEN 0 ELSE Head(rows).rating[1] + SumRatings(Tail(rows))

----------------------------------------------------------------------------
(* book_manager.py: the tables after borrow_book and return_book.          *)

\* The due date borrow_book computes when the caller gives no days.
DefaultDays == 14

\* Lines 71-78: what borrow_book answers before it writes anything.
BorrowRefusal(book_id) ==
    IF book_id \notin BookIds THEN Some("Book not found")
    ELSE IF ~available[book_id] THEN Some("Book is currently borrowed")
    ELSE None

\* Lines 86-91: the row borrow_book inserts.
BorrowRow(book_id, borrower_id, days) ==
    [book_id |-> book_id, borrower_id |-> borrower_id, borrow_date |-> today,
     due_date |-> today + days, return_date |-> None, status |-> "active"]

\* Lines 108-112: the UPDATE of return_book, over every matching row.
ReturnedRecords(book_id, borrower_id) ==
    [i \in DOMAIN borrowing_records |->
        LET r == borrowing_records[i]
        IN  IF r.book_id = book_id /\ r.borrower_id = borrower_id /\ r.status = "active"
            THEN [r EXCEPT !.return_date = Some(today), !.status = "returned"]
            ELSE r]

\* Line 114: UPDATE books SET available = 1 WHERE book_id = ?
AvailableAfterReturn(book_id) ==
    IF book_id \in BookIds THEN [available EXCEPT ![book_id] = TRUE] ELSE available

\* Lines 116-122: the reading_history row, inserted only for a truthy rating.
HistoryAfterReturn(book_id, borrower_id, rating) ==
    IF Truthy(rating)
    THEN Append(reading_history,
                [user_id |-> borrower_id, book_id |-> book_id,
                 rating |-> rating, completed_date |-> today])
    ELSE reading_history

ActiveRecords(book_id) ==
    {i \in DOMAIN borrowing_records :
        borrowing_records[i].book_id = book_id /\ borrowing_records[i].status = "active"}

HasActive(book_id, borrower_id) ==
    \E i \in ActiveRecords(book_id) : borrowing_records[i].borrower_id = borrower_id

HasRead(book_id, user_id) ==
    \E i \in DOMAIN reading_history :
        reading_history[i].book_id = book_id /\ reading_history[i].user_id = user_id

----------------------------------------------------------------------------
(* recommendation_engine.py.                                               *)

\* Lines 27-34: reading_history JOIN books for one user.
UserHistory(user_id) ==
    SelectSeq(reading_history,
              LAMBDA r : r.user_id = user_id /\ r.book_id \in BookIds)

\* Lines 36-49: the sums of the user's ratings per genre and per author.
get_user_reading_profile(user_id) ==
    LET history == UserHistory(user_id)
        rated   == SelectSeq(history, LAMBDA r : Truthy(r.rating))
        genres  == {books[rated[i].book_id].genre : i \in DOMAIN rated}
        authors == {books[rated[i].book_id].author : i \in DOMAIN rated}
    IN  [genres  |-> [g \in genres |->
                        SumRatings(SelectSeq(rated, LAMBDA r : books[r.book_id].genre = g))],
         authors |-> [a \in authors |->
                        SumRatings(SelectSeq(rated, LAMBDA r : books[r.book_id].author = a))],
         total_books |-> Len(history)]

\* Lines 90-97.
AgeGroup(age) ==
    IF age <= 8 THEN "5-8"
    ELSE IF age <= 12 THEN "9-12"
    ELSE IF age <= 16 THEN "13-16"
    ELSE "16+"

\* A plausible bug: the books the user holds are not left out.
CandidateBooksWithHeld(user_id) ==
    {b \in BookIds :
        /\ books[b].owner_id \in UserIds
        /\ users[books[b].owner_id].community_name = users[user_id].community_name
        /\ books[b].age_group = AgeGroup(users[user_id].age[1])
        /\ available[b]
        /\ ~HasRead(b, user_id)}

\* Lines 103-117: the books the SELECT returns, for a user with an age.
CandidateBooks(user_id) ==
    {b \in BookIds :
        /\ books[b].owner_id \in UserIds
        /\ users[books[b].owner_id].community_name = users[user_id].community_name
        /\ books[b].age_group = AgeGroup(users[user_id].age[1])
        /\ available[b]
        /\ ~HasRead(b, user_id)
        /\ ~HasActive(b, user_id)}

\* Lines 141-147: the rows AVG(rating) runs over.
RatedRows(book_id) ==
    SelectSeq(reading_history, LAMBDA r : r.book_id = book_id /\ r.rating # None)

\* Lines 148-152: "if avg_rating:" is false for NULL and for an average of 0.
AverageTerm(book_id) ==
    LET rows == RatedRows(book_id)
    IN  IF Len(rows) > 0 /\ SumRatings(rows) # 0
        THEN Frac(SumRatings(rows), Len(rows))
        ELSE Frac(3, 1)

\* Lines 156-166: COUNT(*) over the joined pairs of rows.
SimilarUsers(user_id) ==
    Cardinality({ij \in (DOMAIN reading_history) \X (DOMAIN reading_history) :
        LET rh1 == reading_history[ij[1]]
            rh2 == reading_history[ij[2]]
        IN  /\ rh1.book_id = rh2.book_id
            /\ rh1.user_id = user_id
            /\ rh2.user_id # user_id
            /\ rh1.rating # None /\ rh1.rating[1] >= 4
            /\ rh2.rating # None /\ rh2.rating[1] >= 4})

\* Lines 131-133: genre_score = profile['genres'][genre] * 2.0
GenreTerm(profile, genre) ==
    IF genre \in DOMAIN profile.genres THEN Frac(profile.genres[genre] * 2, 1)
    ELSE Frac(0, 1)

\* Lines 136-138: author_score = profile['authors'][author] * 1.5
AuthorTerm(profile, author) ==
    IF author \in DOMAIN profile.authors THEN Frac(profile.authors[author] * 3, 2)
    ELSE Frac(0, 1)

\* Lines 167-168: similar_users * 0.5
PeerTerm(user_id) ==
    IF SimilarUsers(user_id) > 0 THEN Frac(SimilarUsers(user_id), 2) ELSE Frac(0, 1)

\* A plausible bug: the peer term counts the other readers who liked the
\* candidate itself.
BookScorePeerPerBook(user_id, book_id) ==
    LET profile == get_user_reading_profile(user_id)
        s1 == FracAdd(Frac(0, 1), GenreTerm(profile, books[book_id].genre))
        s2 == FracAdd(s1, AuthorTerm(profile, books[book_id].author))
        s3 == FracAdd(s2, AverageTerm(book_id))
        fans == Cardinality({i \in DOMAIN reading_history :
                    /\ reading_history[i].book_id = book_id
                    /\ reading_history[i].user_id # user_id
                    /\ reading_history[i].rating # None
                    /\ reading_history[i].rating[1] >= 4})
    IN  FracAdd(s3, Frac(fans, 2))

\* Lines 128-170: the score of one book.
BookScore(user_id, book_id) ==
    LET profile == get_user_reading_profile(user_id)
        s1 == FracAdd(Frac(0, 1), GenreTerm(profile, books[book_id].genre))
        s2 == FracAdd(s1, AuthorTerm(profile, books[book_id].author))
        s3 == FracAdd(s2, AverageTerm(book_id))
    IN  FracAdd(s3, PeerTerm(user_id))

RECURSIVE InsertByScoreUnstable(_, _)
\* A plausible bug: x goes before the first item with a score that is not
\* larger, so equal scores come out in reverse order.
InsertByScoreUnstable(sorted, x) ==
    IF sorted = <<>> THEN <<x>>
    ELSE IF ~FracLess(x.score, Head(sorted).score) THEN <<x>> \o sorted
    ELSE <<Head(sorted)>> \o InsertByScoreUnstable(Tail(sorted), x)

RECURSIVE InsertByScore(_, _)
\* x goes before the first item with a smaller score: equal scores keep
\* their order, as list.sort(reverse=True) keeps them.
InsertByScore(sorted, x) ==
    IF sorted = <<>> THEN <<x>>
    ELSE IF FracLess(Head(sorted).score, x.score) THEN <<x>> \o sorted
    ELSE <<Head(sorted)>> \o InsertByScore(Tail(sorted), x)

RECURSIVE SortByScore(_)
\* Line 173: recommendations.sort(key=lambda x: x[4], reverse=True)
SortByScore(recs) ==
    IF recs = <<>> THEN <<>>
    ELSE InsertByScore(SortByScore(SubSeq(recs, 1, Len(recs) - 1)), recs[Len(recs)])

\* Line 83-85: no users row.
UserFound(user_id) == user_id \in UserIds

\* Line 90: a NULL age (a parent) makes "age <= 8" raise TypeError.
RecommendRaises(user_id) == UserFound(user_id) /\ users[user_id].age = None

\* The orders in which line 119 may fetch the candidate books.
CandidatePools(user_id) ==
    IF UserFound(user_id) /\ ~RecommendRaises(user_id)
    THEN Perms(CandidateBooks(user_id))
    ELSE {<<>>}

\* recommend_books(user_id, limit) when the SELECT returned available_books.
recommend_books(user_id, limit, available_books) ==
    IF ~UserFound(user_id) THEN <<>>
    ELSE IF available_books = <<>> THEN <<>>
    ELSE LET recommendations ==
                [i \in DOMAIN available_books |->
                    [book_id |-> available_books[i],
                     author  |-> books[available_books[i]].author,
                     genre   |-> books[available_books[i]].genre,
                     score   |-> BookScore(user_id, available_books[i])]]
         IN  Slice(SortByScore(recommendations), limit)

\* A plausible bug: the author match weighs 3 and the genre match 2.
SimilarityScoreSwapped(book_id, target) ==
    (IF books[book_id].genre = books[target].genre THEN 2 ELSE 0)
    + (IF books[book_id].author = books[target].author THEN 3 ELSE 0)

\* Lines 209-216: the CASE expressions.
SimilarityScore(book_id, target) ==
    (IF books[book_id].genre = books[target].genre THEN 3 ELSE 0)
    + (IF books[book_id].author = books[target].author THEN 2 ELSE 0)

\* Lines 217-220: the WHERE clause.
SimilarCandidates(target) ==
    {b \in BookIds :
        b # target /\ books[b].age_group = books[target].age_group /\ available[b]}

\* find_similar_books(book_id, limit): every list the query may return
\* (ORDER BY leaves the order of equal scores open).
find_similar_books(book_id, limit) ==
    IF book_id \notin BookIds THEN {<<>>}
    ELSE {SqlLimit([i \in DOMAIN p |->
                      [book_id |-> p[i],
                       author  |-> books[p[i]].author,
                       genre   |-> books[p[i]].genre,
                       similarity_score |-> SimilarityScore(p[i], book_id)]],
                   limit) :
            p \in OrderByDesc(SimilarCandidates(book_id),
                              [b \in SimilarCandidates(book_id) |->
                                  SimilarityScore(b, book_id)])}

\* Lines 294-306 of recommend_by_genre: the WHERE clause, for a user with
\* an age.  Books the user holds are not left out here.
GenreCandidates(user_id, genre) ==
    {b \in BookIds :
        /\ books[b].owner_id \in UserIds
        /\ users[books[b].owner_id].community_name = users[user_id].community_name
        /\ books[b].genre = genre
        /\ books[b].age_group = AgeGroup(users[user_id].age[1])
        /\ available[b]
        /\ ~HasRead(b, user_id)}

\* Line 296: COALESCE(AVG(rh.rating), 3.0)
GenreAverage(book_id) ==
    IF RatedRows(book_id) = <<>> THEN Frac(3, 1)
    ELSE Frac(SumRatings(RatedRows(book_id)), Len(RatedRows(book_id)))

\* recommend_by_genre(user_id, genre, limit): every list the query may
\* return, for a user id that is unknown or has an age.
recommend_by_genre(user_id, genre, limit) ==
    IF ~UserFound(user_id) THEN {<<>>}
    ELSE {SqlLimit([i \in DOMAIN p |->
                      [book_id |-> p[i],
                       author  |-> books[p[i]].author,
                       genre   |-> books[p[i]].genre,
                       avg_rating |-> GenreAverage(p[i])]],
                   limit) :
            p \in {q \in Perms(GenreCandidates(user_id, genre)) :
                     \A i, j \in DOMAIN q :
                         i < j => ~FracLess(GenreAverage(q[i]), GenreAverage(q[j]))}}

----------------------------------------------------------------------------
(* gamification.py and api.py: the leaderboard.                            *)

\* Lines 155-157: user_stats JOIN users, children of one community.
LeaderboardUsers(community_name) ==
    {u \in DOMAIN user_stats :
        /\ u \in UserIds
        /\ users[u].community_name = community_name
        /\ users[u].user_type = "child"}

\* A plausible bug: ORDER BY total_points without DESC.
LeaderboardOrdersAscending(community_name) ==
    OrderByDesc(LeaderboardUsers(community_name),
                [u \in LeaderboardUsers(community_name) |->
                    0 - user_stats[u].total_points])

\* Line 158: ORDER BY us.total_points DESC, equal points in any order.
LeaderboardOrders(community_name) ==
    OrderByDesc(LeaderboardUsers(community_name),
                [u \in LeaderboardUsers(community_name) |->
                    user_stats[u].total_points])

\* Lines 153-154: the columns selected for one user.
LeaderboardRow(u) ==
    [name           |-> users[u].name,
     total_books    |-> user_stats[u].total_books_read,
     total_points   |-> user_stats[u].total_points,
     current_streak |-> user_stats[u].current_streak,
     longest_streak |-> user_stats[u].longest_streak]

\* get_leaderboard(community_name, limit): every list the query may return.
get_leaderboard(community_name, limit) ==
    {SqlLimit([i \in DOMAIN p |-> LeaderboardRow(p[i])], limit) :
        p \in LeaderboardOrders(community_name)}

\* api.py get_leaderboard: the rows with rank idx + 1.
api_get_leaderboard(community_name, limit) ==
    {[community  |-> community_name,
      total      |-> Len(results),
      leaderboard |-> [idx \in DOMAIN results |->
                         [rank           |-> idx,
                          name           |-> results[idx].name,
                          books_read     |-> results[idx].total_books,
                          total_points   |-> results[idx].total_points,
                          current_streak |-> results[idx].current_streak,
                          longest_streak |-> results[idx].longest_streak]]] :
        results \in get_leaderboard(community_name, limit)}

----------------------------------------------------------------------------
(* Initial state: the database after registration, nothing borrowed, read  *)
(* or rated yet.                                                           *)

Init ==
    /\ today = 1
    /\ available = [b \in BookIds |-> TRUE]
    /\ borrowing_records = <<>>
    /\ reading_history = <<>>
    /\ user_stats = [u \in Children |-> ZeroStats]
    /\ calls = [p \in Procs |-> [pc |-> "idle"]]
    /\ response = [op |-> "none"]

\* Midnight passes.
Tick ==
    /\ today' = today + 1
    /\ UNCHANGED <<available, borrowing_records, reading_history, user_stats,
                   calls, response>>

\* update_reading_stats(user_id), run without interruption.
update_reading_stats(user_id) ==
    /\ user_stats' = StatsAfterUpdate(user_stats, user_id, today)
    /\ response' = [op |-> "update_reading_stats", user_id |-> user_id,
                    value |-> UpdateResult(user_stats, user_id, today)]
    /\ UNCHANGED <<today, available, borrowing_records, reading_history, calls>>

\* register_child(name, parent_id, age) when AUTOINCREMENT gives the new
\* users row the id child_id: without the parent's row nothing is inserted,
\* otherwise the users row (users holds it already, see above) and the
\* user_stats row are.
register_child(child_id, parent_id) ==
    /\ child_id \in Children \ DOMAIN user_stats
    /\ IF parent_id \notin UserIds
       THEN /\ response' = [op |-> "register_child", value |-> None]
            /\ UNCHANGED user_stats
       ELSE /\ user_stats' = [u \in DOMAIN user_stats \cup {child_id} |->
                                 IF u = child_id THEN ZeroStats ELSE user_stats[u]]
            /\ response' = [op |-> "register_child", value |-> Some(child_id)]
    /\ UNCHANGED <<today, available, borrowing_records, reading_history, calls>>

\* borrow_book(book_id, borrower_id, days)
borrow_book(book_id, borrower_id, days) ==
    /\ IF BorrowRefusal(book_id) # None
       THEN /\ response' = [op |-> "borrow_book",
                            value |-> <<FALSE, BorrowRefusal(book_id)[1]>>]
            /\ UNCHANGED <<available, borrowing_records>>
       ELSE /\ borrowing_records' =
                  Append(borrowing_records, BorrowRow(book_id, borrower_id, days))
            /\ available' = [available EXCEPT ![book_id] = FALSE]
            /\ response' = [op |-> "borrow_book",
                            value |-> <<TRUE, "Book borrowed successfully">>]
    /\ UNCHANGED <<today, reading_history, user_stats, calls>>

\* return_book(book_id, borrower_id, rating, review); the review text is not
\* modelled, nothing reads it back.
return_book(book_id, borrower_id, rating) ==
    /\ borrowing_records' = ReturnedRecords(book_id, borrower_id)
    /\ available' = AvailableAfterReturn(book_id)
    /\ reading_history' = HistoryAfterReturn(book_id, borrower_id, rating)
    /\ response' = [op |-> "return_book", value |-> TRUE]
    /\ UNCHANGED <<today, user_stats, calls>>

\* api.py return_book: BookManager.return_book, then update_reading_stats
\* when the rating is truthy; its result is not looked at.
api_return_book(book_id, borrower_id, rating) ==
    /\ borrowing_records' = ReturnedRecords(book_id, borrower_id)
    /\ available' = AvailableAfterReturn(book_id)
    /\ reading_history' = HistoryAfterReturn(book_id, borrower_id, rating)
    /\ user_stats' = IF Truthy(rating)
                     THEN StatsAfterUpdate(user_stats, borrower_id, today)
                     ELSE user_stats
    /\ response' = [op |-> "api_return_book", status |-> 200,
                    value |-> [success |-> TRUE, stats_updated |-> Truthy(rating)]]
    /\ UNCHANGED <<today, calls>>

\* A plausible bug: recommending reserves the first book of the list.
QueryRecommendReserving(user_id, limit) ==
    /\ \E pool \in CandidatePools(user_id) :
          /\ response' = [op |-> "recommend_books",
                          raised |-> RecommendRaises(user_id),
                          value |-> IF RecommendRaises(user_id) THEN <<>>
                                    ELSE recommend_books(user_id, limit, pool)]
          /\ available' =
                IF RecommendRaises(user_id) \/ recommend_books(user_id, limit, pool) = <<>>
                THEN available
                ELSE [available EXCEPT
                        ![recommend_books(user_id, limit, pool)[1].book_id] = FALSE]
    /\ UNCHANGED <<today, borrowing_records, reading_history, user_stats, calls>>

\* recommend_books(user_id, limit) called: SELECTs only, no commit.  A NULL
\* age ends the call with a TypeError.
QueryRecommend(user_id, limit) ==
    /\ \E pool \in CandidatePools(user_id) :
          response' = [op |-> "recommend_books",
                       raised |-> RecommendRaises(user_id),
                       value |-> IF RecommendRaises(user_id) THEN <<>>
                                 ELSE recommend_books(user_id, limit, pool)]
    /\ UNCHANGED <<today, available, borrowing_records, reading_history,
                   user_stats, calls>>

\* find_similar_books(book_id, limit) called: SELECTs only.
QuerySimilar(book_id, limit) ==
    /\ \E res \in find_similar_books(book_id, limit) :
          response' = [op |-> "find_similar_books", value |-> res]
    /\ UNCHANGED <<today, available, borrowing_records, reading_history,
                   user_stats, calls>>

\* recommend_by_genre(user_id, genre, limit) called: SELECTs only.
QueryByGenre(user_id, genre, limit) ==
    /\ IF RecommendRaises(user_id)
       THEN response' = [op |-> "recommend_by_genre", raised |-> TRUE, value |-> <<>>]
       ELSE \E res \in recommend_by_genre(user_id, genre, limit) :
               response' = [op |-> "recommend_by_genre", raised |-> FALSE,
                            value |-> res]
    /\ UNCHANGED <<today, available, borrowing_records, reading_history,
                   user_stats, calls>>

\* GET /api/gamification/leaderboard: one SELECT.
QueryLeaderboard(community_name, limit) ==
    /\ \E res \in api_get_leaderboard(community_name, limit) :
          response' = [op |-> "get_leaderboard", value |-> res]
    /\ UNCHANGED <<today, available, borrowing_records, reading_history,
                   user_stats, calls>>

\* Lines 49-89 of update_reading_stats in process p: the SELECT and what
\* Python computes from the row; without a row the call returns None.
ReadStats(p, user_id) ==
    /\ calls[p].pc = "idle"
    /\ IF user_id \in DOMAIN user_stats
       THEN /\ calls' = [calls EXCEPT ![p] =
                  [pc |-> "computed", user_id |-> user_id,
                   c |-> ComputeStats(user_id, user_stats[user_id], today)]]
            /\ UNCHANGED response
       ELSE /\ calls' = [calls EXCEPT ![p] =
                  [pc |-> "done", user_id |-> user_id, value |-> None]]
            /\ response' = [op |-> "update_reading_stats", user_id |-> user_id,
                            value |-> None]
    /\ UNCHANGED <<today, available, borrowing_records, reading_history, user_stats>>

\* A plausible bug: the UPDATE has no WHERE clause and writes every row.
WriteStatsNoWhere(p) ==
    /\ calls[p].pc = "computed"
    /\ user_stats' = [u \in DOMAIN user_stats |-> WrittenStats(calls[p].c, today)]
    /\ calls' = [calls EXCEPT ![p] =
            [pc |-> "done", user_id |-> calls[p].user_id,
             value |-> Some(StatsDelta(calls[p].c))]]
    /\ response' = [op |-> "update_reading_stats", user_id |-> calls[p].user_id,
                    value |-> Some(StatsDelta(calls[p].c))]
    /\ UNCHANGED <<today, available, borrowing_records, reading_history>>

\* Lines 91-123 in process p: the UPDATE, the commit and the return.
WriteStats(p) ==
    /\ calls[p].pc = "computed"
    /\ user_stats' = [user_stats EXCEPT ![calls[p].user_id] =
                         WrittenStats(calls[p].c, today)]
    /\ calls' = [calls EXCEPT ![p] =
            [pc |-> "done", user_id |-> calls[p].user_id,
             value |-> Some(StatsDelta(calls[p].c))]]
    /\ response' = [op |-> "update_reading_stats", user_id |-> calls[p].user_id,
                    value |-> Some(StatsDelta(calls[p].c))]
    /\ UNCHANGED <<today, available, borrowing_records, reading_history>>

\* Lines 69-78 of borrow_book in process p: the SELECT of books.available
\* and the two refusals.
CheckBook(p, book_id, borrower_id, days) ==
    /\ calls[p].pc = "idle"
    /\ IF BorrowRefusal(book_id) # None
       THEN /\ calls' = [calls EXCEPT ![p] =
                  [pc |-> "done", book_id |-> book_id, borrower_id |-> borrower_id,
                   value |-> <<FALSE, BorrowRefusal(book_id)[1]>>]]
            /\ response' = [op |-> "borrow_book",
                            value |-> <<FALSE, BorrowRefusal(book_id)[1]>>]
       ELSE /\ calls' = [calls EXCEPT ![p] =
                  [pc |-> "checked", book_id |-> book_id,
                   borrower_id |-> borrower_id, days |-> days]]
            /\ UNCHANGED response
    /\ UNCHANGED <<today, available, borrowing_records, reading_history, user_stats>>

\* Lines 82-97 in process p: the INSERT, the UPDATE of books.available, the
\* commit and the return.
InsertBorrow(p) ==
    /\ calls[p].pc = "checked"
    /\ borrowing_records' =
          Append(borrowing_records,
                 BorrowRow(calls[p].book_id, calls[p].borrower_id, calls[p].days))
    /\ available' = [available EXCEPT ![calls[p].book_id] = FALSE]
    /\ calls' = [calls EXCEPT ![p] =
            [pc |-> "done", book_id |-> calls[p].book_id,
             borrower_id |-> calls[p].borrower_id,
             value |-> <<TRUE, "Book borrowed successfully">>]]
    /\ response' = [op |-> "borrow_book",
                    value |-> <<TRUE, "Book borrowed successfully">>]
    /\ UNCHANGED <<today, reading_history, user_stats>>

(* The streak engine alone: one reader and one user without a stats row    *)
(* call POST /api/gamification/update over the days.                       *)
StreakUsers == {1, 2}

\* The bounds: the clock stops at MaxDay, a record at MaxBooks completions.
BooksBelow(u, n) == u \in DOMAIN user_stats => user_stats[u].total_books_read < n

StreakNext ==
    \/ today < MaxDay /\ Tick
    \/ \E u \in StreakUsers : BooksBelow(u, MaxBooks) /\ update_reading_stats(u)

SpecStreak == Init /\ [][StreakNext]_vars

(* The library alone: two readers borrow and return two books, as         *)
(* main.py calls the book manager (steps 5 and 6).                         *)
LibUsers == {2, 3}

LibBooks == {1, 2}

LibRatings == {None, Some(5)}

\* The bounds: the tables stop growing at MaxRecords and MaxRatings rows.
RecordsBelow(n) == Len(borrowing_records) < n

HistoryBelow(rating, n) == Truthy(rating) => Len(reading_history) < n

LibNext ==
    \/ \E b \in LibBooks \cup {NoSuchId}, u \in LibUsers :
          RecordsBelow(MaxRecords) /\ borrow_book(b, u, DefaultDays)
    \/ \E b \in LibBooks, u \in LibUsers, r \in LibRatings :
          HistoryBelow(r, MaxRatings) /\ return_book(b, u, r)

SpecLib == Init /\ [][LibNext]_vars

(* The ratings alone: two readers return books with ratings, valid or not  *)
(* (return_book asks for no borrowing record and checks no rating).        *)
ScoreRatings == {Some(-4), Some(0), Some(4), Some(5)}

ScoreBooks == {1, 2, 3}

ScoreNext ==
    \E b \in ScoreBooks, u \in LibUsers, r \in ScoreRatings :
        HistoryBelow(r, MaxHistory) /\ return_book(b, u, r)

SpecScore == Init /\ [][ScoreNext]_vars

(* The leaderboard: three readers of two communities collect points.     *)
BoardUsers == {2, 3, 5}

BoardNext ==
    \/ today < MaxBoardDay /\ Tick
    \/ \E u \in BoardUsers : BooksBelow(u, MaxBoardBooks) /\ update_reading_stats(u)

SpecBoard == Init /\ [][BoardNext]_vars

(* The candidate pools: the reader of Lake View borrows books, among them *)
(* the only book of that community, and two readers return and rate books. *)
PoolUsers == {3, 5}

PoolBooks == {1, 5}

PoolBorrower == 5

PoolNext ==
    \/ \E b \in PoolBooks :
          RecordsBelow(MaxRecords) /\ borrow_book(b, PoolBorrower, DefaultDays)
    \/ \E b \in PoolBooks, u \in PoolUsers, r \in LibRatings :
          HistoryBelow(r, MaxRatings) /\ return_book(b, u, r)

SpecPool == Init /\ [][PoolNext]_vars

(* The peers: two readers rate three books, each book once per reader.    *)
PeerBooks == {1, 2, 3}

PeerRatings == {Some(3), Some(5)}

PeerNext ==
    \E b \in PeerBooks, u \in LibUsers, r \in PeerRatings :
        ~HasRead(b, u) /\ HistoryBelow(r, MaxPeerRows) /\ return_book(b, u, r)

SpecPeer == Init /\ [][PeerNext]_vars

(* POST /api/return over the days: one book returned again and again by    *)
(* two readers, rated or not, the rating whatever the request carries.     *)
ApiUsers == {2, 3}

ApiBooks == {1}

ApiRatings == {None, Some(0), Some(5), Some(7)}

ApiNext ==
    \/ today < MaxApiDay /\ Tick
    \/ \E b \in ApiBooks, u \in ApiUsers, r \in ApiRatings :
          HistoryBelow(r, MaxApiRows) /\ api_return_book(b, u, r)

SpecApi == Init /\ [][ApiNext]_vars

(* Two processes on one database file, each running update_reading_stats   *)
(* once: nothing orders the SELECT of one and the UPDATE of the other.     *)
ConcUsers == {1, 2, 3}

ConcNext ==
    \/ today < MaxConcDay /\ Tick
    \/ \E p \in Procs, u \in ConcUsers : ReadStats(p, u)
    \/ \E p \in Procs : WriteStats(p)

SpecConc == Init /\ [][ConcNext]_vars

(* Registration: the parents are registered, the children are registered  *)
(* one by one while books are borrowed, returned and completed.  None of   *)
(* borrow_book, return_book and update_reading_stats reads the users       *)
(* table.                                                                  *)
InitReg ==
    /\ today = 1
    /\ available = [b \in BookIds |-> TRUE]
    /\ borrowing_records = <<>>
    /\ reading_history = <<>>
    /\ user_stats = [u \in {} |-> ZeroStats]
    /\ calls = [p \in Procs |-> [pc |-> "idle"]]
    /\ response = [op |-> "none"]

RegChildren == {2, 3}

RegParents == {NoSuchId, 1}

RegBooks == {1}

RegNext ==
    \/ \E u \in RegChildren, parent \in RegParents : register_child(u, parent)
    \/ \E b \in RegBooks, u \in RegChildren :
          RecordsBelow(MaxRecords) /\ borrow_book(b, u, DefaultDays)
    \/ \E b \in RegBooks, u \in RegChildren, r \in LibRatings :
          HistoryBelow(r, MaxRatings) /\ return_book(b, u, r)
    \/ \E u \in RegChildren : BooksBelow(u, MaxRatings) /\ update_reading_stats(u)

SpecReg == InitReg /\ [][RegNext]_vars

(* The queries: a reader borrows, returns and rates a book, and between    *)
(* these calls every query is asked, also for a parent and unknown ids.    *)
QueryUsers == {NoSuchId, 1, 2}

QueryBooks == {NoSuchId, 1}

QueryLimits == {1, MaxLimit}

QueryGenres == {"Fantasy"}

QueryBorrower == 3

QueryNext ==
    \/ RecordsBelow(MaxRecords) /\ borrow_book(1, QueryBorrower, DefaultDays)
    \/ HistoryBelow(Some(5), MaxRatings) /\ api_return_book(1, QueryBorrower, Some(5))
    \/ \E u \in QueryUsers, limit \in QueryLimits : QueryRecommend(u, limit)
    \/ \E b \in QueryBooks, limit \in QueryLimits : QuerySimilar(b, limit)
    \/ \E u \in QueryUsers, g \in QueryGenres, limit \in QueryLimits :
          QueryByGenre(u, g, limit)
    \/ \E c \in {"Green Valley"}, limit \in QueryLimits : QueryLeaderboard(c, limit)

SpecQuery == Init /\ [][QueryNext]_vars

(* The badges: the streak engine near each badge threshold.  The reader's  *)
(* record at the start is the one update_reading_stats leaves after a      *)
(* schedule of earlier completions, computed by the operators above.       *)
BadgeUser == 2

RECURSIVE Replay(_, _, _)
\* The record after update_reading_stats(user_id) ran on each day of days.
\* Every call adds one to total_books_read; the test makes each record be
\* computed before the next call is replayed.
Replay(stats, user_id, days) ==
    IF days = <<>> THEN stats
    ELSE LET next == WrittenStats(ComputeStats(user_id, stats, Head(days)), Head(days))
         IN  IF next.total_books_read > stats.total_books_read
             THEN Replay(next, user_id, Tail(days))
             ELSE stats

\* One completion a day on days 1..n.
Consecutive(n) == [i \in 1..n |-> i]

\* n completions on day 1.
SameDay(n) == [i \in 1..n |-> 1]

\* Earlier completions that end just below each threshold of _check_badges:
\* streaks of 5, 8, 23, 28 and 48 days, 8, 23 and 48 books in one day, and
\* four books in one day followed by five more days (9 books, streak 6).
BadgeSchedules ==
    {Consecutive(n) : n \in {0, 5, 8, 23, 28, 48}}
        \cup {SameDay(n) : n \in {8, 23, 48}}
        \cup {SameDay(4) \o <<2, 3, 4, 5, 6>>}

\* The day of the last completion of a schedule, day 1 without one.
LastDay(days) == IF days = <<>> THEN 1 ELSE days[Len(days)]

InitBadges ==
    /\ \E days \in BadgeSchedules :
          /\ today = LastDay(days)
          /\ user_stats = [u \in Children |->
                IF u = BadgeUser THEN Replay(ZeroStats, u, days) ELSE ZeroStats]
    /\ available = [b \in BookIds |-> TRUE]
    /\ borrowing_records = <<>>
    /\ reading_history = <<>>
    /\ calls = [p \in Procs |-> [pc |-> "idle"]]
    /\ response = [op |-> "none"]

\* The bounds: MaxBadgeSteps more completions after a schedule, the clock
\* at most MaxBadgeGap days past the last completion.
BadgeTotals ==
    UNION {(Len(days) + 1)..(Len(days) + MaxBadgeSteps) : days \in BadgeSchedules}

GapBelow(u, n) ==
    IF user_stats[u].last_activity_date = None THEN today < n
    ELSE today - user_stats[u].last_activity_date[1] < n

BadgeNext ==
    \/ GapBelow(BadgeUser, MaxBadgeGap) /\ Tick
    \/ /\ user_stats[BadgeUser].total_books_read + 1 \in BadgeTotals
       /\ update_reading_stats(BadgeUser)

SpecBadges == InitBadges /\ [][BadgeNext]_vars

(* The two endpoints that drive the streak engine, POST /api/return and    *)
(* POST /api/gamification/update, called for a parent and for a reader.    *)
EventUsers == {1, 2}

EventBooks == {1}

EventRatings == {None, Some(5)}

EventNext ==
    \/ today < MaxApiDay /\ Tick
    \/ \E b \in EventBooks, u \in EventUsers, r \in EventRatings :
          HistoryBelow(r, MaxEvents) /\ api_return_book(b, u, r)
    \/ \E u \in EventUsers : BooksBelow(u, MaxEvents) /\ update_reading_stats(u)

SpecEvents == Init /\ [][EventNext]_vars

(* Two processes on one database file, each running borrow_book once:     *)
(* nothing orders the SELECT of one and the writes of the other.           *)
BorrowNext ==
    \/ \E p \in Procs, b \in LibBooks \cup {NoSuchId}, u \in LibUsers :
          CheckBook(p, b, u, DefaultDays)
    \/ \E p \in Procs : InsertBorrow(p)

SpecBorrow == Init /\ [][BorrowNext]_vars

----------------------------------------------------------------------------
(* Claims about the streak engine, checked under SpecStreak.               *)

StatsChanged(u) == u \in DOMAIN user_stats /\ user_stats'[u] # user_stats[u]

\* C1: for every reader, in every state reached by update_reading_stats
\* calls from the zero-valued record, longest_streak >= current_streak.
C1_LongestAtLeastCurrent ==
    \A u \in DOMAIN user_stats :
        user_stats[u].longest_streak >= user_stats[u].current_streak

\* A reader whose streak grew to 3 and was then broken.
C1_Witness ==
    \E u \in DOMAIN user_stats :
        /\ user_stats[u].longest_streak = 3
        /\ user_stats[u].current_streak = 1

\* C2: no update_reading_stats call lowers the reader's persisted
\* total_points: after every step it is at least what it was before.
C2_PointsNeverDecrease ==
    [][\A u \in DOMAIN user_stats :
          user_stats'[u].total_points >= user_stats[u].total_points]_vars

\* A reader who earned 14 points on a two-day streak and then 12 after a gap.
C2_Witness ==
    \E u \in DOMAIN user_stats :
        /\ user_stats[u].total_points = 38
        /\ user_stats[u].total_books_read = 3
        /\ user_stats[u].current_streak = 1

\* C3: a badge id in a reader's persisted badge list is still in it after
\* every later call, also when the streak has gone back to 1.
C3_BadgesKept ==
    [][\A u \in DOMAIN user_stats : \A i \in 1..Len(user_stats[u].badges) :
          Contains(user_stats'[u].badges, user_stats[u].badges[i])]_vars

\* A reader who still holds week_streak after the streak was broken.
C3_Witness ==
    \E u \in DOMAIN user_stats :
        /\ Contains(user_stats[u].badges, "week_streak")
        /\ user_stats[u].current_streak = 1

\* C4: a call one day after last_activity_date adds 1 to current_streak; a
\* call two or more days after it, or with no last_activity_date, sets it to 1.
C4_StreakStep ==
    [][\A u \in DOMAIN user_stats : StatsChanged(u) =>
          LET old == user_stats[u]
              new == user_stats'[u]
          IN  /\ old.last_activity_date = None => new.current_streak = 1
              /\ old.last_activity_date # None =>
                    LET gap == today - old.last_activity_date[1]
                    IN  /\ gap = 1 => new.current_streak = old.current_streak + 1
                        /\ gap >= 2 => new.current_streak = 1]_vars

\* A reader whose streak was extended twice and then reset by a gap.
C4_Witness ==
    \E u \in DOMAIN user_stats :
        /\ user_stats[u].longest_streak >= 3
        /\ user_stats[u].current_streak = 1
        /\ user_stats[u].total_books_read >= 4

\* The records of the scenario: after the completion on day 1, and after
\* the completion on day 2.
ScenarioDay1 ==
    [total_books_read |-> 1, current_streak |-> 1, longest_streak |-> 1,
     total_points |-> 12, badges |-> <<"first_book">>,
     last_activity_date |-> Some(1)]

ScenarioDay2 ==
    [total_books_read |-> 2, current_streak |-> 2, longest_streak |-> 2,
     total_points |-> 26, badges |-> <<"first_book">>,
     last_activity_date |-> Some(2)]

\* C5: every successful call adds 10 + 2 * (new current_streak) to
\* total_points; from the zero record, completions on days 1, 2 and 5 give
\* (streak, points) = (1, 12), (2, 26), (1, 38).
C5_PointsPerCall ==
    [][\A u \in DOMAIN user_stats : StatsChanged(u) =>
          LET old == user_stats[u]
              new == user_stats'[u]
          IN  /\ new.total_points =
                    old.total_points + 10 + 2 * new.current_streak
              /\ (old = ZeroStats /\ today = 1) =>
                    (new.current_streak = 1 /\ new.total_points = 12)
              /\ (old = ScenarioDay1 /\ today = 2) =>
                    (new.current_streak = 2 /\ new.total_points = 26)
              /\ (old = ScenarioDay2 /\ today = 5) =>
                    (new.current_streak = 1 /\ new.total_points = 38)]_vars

\* The end of the scenario: three completions, the last on day 5.
C5_Witness ==
    \E u \in DOMAIN user_stats :
        user_stats[u] =
            [total_books_read |-> 3, current_streak |-> 1, longest_streak |-> 2,
             total_points |-> 38, badges |-> <<"first_book">>,
             last_activity_date |-> Some(5)]

----------------------------------------------------------------------------
(* Claims about the recommendations.                                       *)

\* The limits the queries are asked with.
Limits == -1..MaxLimit

\* The user ids recommend_books answers with a list: an unknown id gets the
\* empty list, a user without an age (a parent) gets a TypeError.
ListedUsers == {u \in UserIds \cup {NoSuchId} : ~RecommendRaises(u)}

\* C6 (SpecLib): whatever was borrowed, returned and rated, no list
\* recommend_books returns to a reader holds a book the reader has a
\* reading_history row for or an active borrowing record for.
C6_NoReadOrHeldBook ==
    \A u \in ListedUsers : \A pool \in CandidatePools(u) : \A limit \in Limits :
        LET recs == recommend_books(u, limit, pool)
        IN  \A i \in DOMAIN recs :
                /\ ~HasRead(recs[i].book_id, u)
                /\ ~HasActive(recs[i].book_id, u)

\* A reader who has read one book and holds another that is marked
\* available again (someone else returned it), and is recommended a third.
C6_Witness ==
    \E u \in Children : \E b1, b2 \in BookIds :
        /\ HasRead(b1, u)
        /\ HasActive(b2, u) /\ available[b2]
        /\ \E pool \in CandidatePools(u) : Len(recommend_books(u, MaxLimit, pool)) > 0

\* The reader's ratings of the books that pass a test, summed.
RatingsOf(user_id, Test(_)) ==
    SumRatings(SelectSeq(reading_history,
        LAMBDA r : r.user_id = user_id /\ r.rating # None /\ Test(r.book_id)))

\* The mean rating of a book over all rated completions, or 3.0 without one.
MeanOrNeutral(book_id) ==
    IF Len(RatedRows(book_id)) = 0 THEN Frac(3, 1)
    ELSE Frac(SumRatings(RatedRows(book_id)), Len(RatedRows(book_id)))

\* 2.0 * genre sum + 1.5 * author sum + mean or 3.0 + peer bonus.
ClaimedScore(user_id, book_id) ==
    FracAdd(FracAdd(Frac(2 * RatingsOf(user_id, LAMBDA b : books[b].genre = books[book_id].genre), 1),
                    Frac(3 * RatingsOf(user_id, LAMBDA b : books[b].author = books[book_id].author), 2)),
            FracAdd(MeanOrNeutral(book_id), PeerTerm(user_id)))

\* The scenario: the reader has rated two Fantasy books 5 and 5 and nothing
\* else, the candidate is a Fantasy book by another author with mean 4.
TwoFantasyFives(user_id, book_id) ==
    /\ Len(UserHistory(user_id)) = 2
    /\ \A i \in DOMAIN reading_history : reading_history[i].user_id = user_id =>
          /\ reading_history[i].rating = Some(5)
          /\ books[reading_history[i].book_id].genre = "Fantasy"
          /\ books[reading_history[i].book_id].author # books[book_id].author
    /\ books[book_id].genre = "Fantasy"
    /\ Len(RatedRows(book_id)) > 0
    /\ SumRatings(RatedRows(book_id)) = 4 * Len(RatedRows(book_id))

ScoreFormula(user_id, book_id) ==
    LET score == BookScore(user_id, book_id)
    IN  /\ FracEq(score, ClaimedScore(user_id, book_id))
        /\ (UserHistory(user_id) = <<>> /\ RatedRows(book_id) = <<>>) =>
              FracEq(score, Frac(3, 1))
        /\ TwoFantasyFives(user_id, book_id) =>
              FracEq(score, FracAdd(Frac(24, 1), PeerTerm(user_id)))

\* C7 (SpecScore): every candidate's score is 2.0 * (the reader's ratings
\* of the candidate's genre) + 1.5 * (the reader's ratings of the
\* candidate's author) + (the candidate's mean rating, or 3.0 when nobody
\* rated it) + peer bonus; 3.0 for a reader without history and a candidate
\* without ratings; 24.0 + peer bonus in the two-Fantasy-fives scenario.
C7_ScoreFormula ==
    \A u \in Children : \A b \in CandidateBooks(u) : ScoreFormula(u, b)

\* The same with every stored rating in 1..5.
ScoreFormulaForValidRatings ==
    (\A i \in DOMAIN reading_history : reading_history[i].rating[1] \in 1..5)
        => C7_ScoreFormula

\* The two-Fantasy-fives scenario has happened.
ScenarioReached ==
    \E u \in Children : \E b \in CandidateBooks(u) : TwoFantasyFives(u, b)

\* C8 (SpecLib): every item of find_similar_books(X) carries the score
\* 3 * [same genre as X] + 2 * [same author as X], and the scores of the list
\* never increase: 5 for genre and author, 3 for the genre alone, 0 for
\* neither, and no item stands before one with a higher score.
C8_SimilarScores ==
    \A x \in BookIds \cup {NoSuchId} : \A limit \in Limits :
        \A res \in find_similar_books(x, limit) :
            /\ \A i \in DOMAIN res :
                  LET sameGenre  == books[res[i].book_id].genre = books[x].genre
                      sameAuthor == books[res[i].book_id].author = books[x].author
                  IN  /\ res[i].similarity_score =
                            3 * (IF sameGenre THEN 1 ELSE 0) + 2 * (IF sameAuthor THEN 1 ELSE 0)
                      /\ (sameGenre /\ sameAuthor) => res[i].similarity_score = 5
                      /\ (sameGenre /\ ~sameAuthor) => res[i].similarity_score = 3
                      /\ (~sameGenre /\ ~sameAuthor) => res[i].similarity_score = 0
            /\ \A i, j \in DOMAIN res :
                  i < j => res[i].similarity_score >= res[j].similarity_score

\* With book 2 borrowed, the books similar to book 1 are listed with the
\* scores 3, 2 and 0; with it returned, the list starts 5, 3.
C8_Witness ==
    /\ ~available[2]
    /\ \E i \in DOMAIN borrowing_records : borrowing_records[i].status = "returned"
    /\ \E res \in find_similar_books(1, 3) :
          /\ Len(res) = 3
          /\ res[1].similarity_score = 3
          /\ res[2].similarity_score = 2
          /\ res[3].similarity_score = 0
          /\ books[res[3].book_id].genre # books[1].genre
          /\ books[res[3].book_id].author # books[1].author

----------------------------------------------------------------------------
(* Claims about the leaderboard and about concurrent updates.              *)

Communities == {"Green Valley", "Lake View", "Nowhere"}

\* The readers of a community: its children with a stats row.
ReadersOf(community_name) ==
    {u \in Children \cap DOMAIN user_stats : users[u].community_name = community_name}

SerialTwo(stats, u, d1, d2) ==
    LET first == WrittenStats(ComputeStats(u, stats, d1), d1)
    IN  WrittenStats(ComputeStats(u, first, d2), d2)

\* C10 (SpecConc): when two concurrent update_reading_stats calls for one
\* reader have both returned, the stored record is the one two calls in a
\* row would have left: total_books_read has grown by 2 and total_points by
\* what the two calls earned.
C10_SerialOutcome ==
    \A p, q \in Procs : \A u \in DOMAIN user_stats :
        (/\ p # q
         /\ calls[p].pc = "done" /\ calls[p].user_id = u
         /\ calls[q].pc = "done" /\ calls[q].user_id = u)
        => /\ \E d1, d2 \in 1..today :
                  d1 <= d2 /\ user_stats[u] = SerialTwo(ZeroStats, u, d1, d2)
           /\ user_stats[u].total_books_read = 2
           /\ user_stats[u].total_points =
                  calls[p].value[1].points_earned + calls[q].value[1].points_earned

----------------------------------------------------------------------------
(* Claims about failures.                                                  *)

\* C11 (SpecStreak): update_reading_stats for a user without a user_stats
\* row returns None (the failure outcome) and changes nothing stored: no row
\* is created and no other reader's row is touched.
C11_NoStatsNoChange ==
    [][\A u \in StreakUsers :
          (u \notin DOMAIN user_stats /\ update_reading_stats(u)) =>
              /\ response'.value = None
              /\ DOMAIN user_stats' = DOMAIN user_stats
              /\ UNCHANGED <<user_stats, reading_history, borrowing_records, available>>]_vars

\* The call for the user without a row has just returned None, while a
\* reader's row already holds completions.
C11_Witness ==
    /\ response.op = "update_reading_stats"
    /\ response.user_id \notin DOMAIN user_stats
    /\ response.value = None
    /\ \E u \in DOMAIN user_stats : user_stats[u].total_books_read >= 2

\* The value both queries return when nothing matches.
EmptyResult == <<>>

\* C12 (SpecLib): recommend_books for a user id that does not exist and
\* find_similar_books for a book id that does not exist end in a failure
\* the caller can tell from a successful empty result: neither returns the
\* empty list.
C12_NotFoundTold ==
    \A limit \in Limits :
        /\ \A pool \in CandidatePools(NoSuchId) :
              recommend_books(NoSuchId, limit, pool) # EmptyResult
        /\ \A res \in find_similar_books(NoSuchId, limit) : res # EmptyResult

\* A rating the request may carry that is no rating of 1 to 5 stars.
InvalidRating(rating) == rating # None /\ rating[1] \notin 1..5

\* C13 (SpecApi): a return with a rating outside 1..5 is refused and leaves
\* reading_history and user_stats as they were, and no reading_history row
\* ever carries a rating outside 1..5.
C13_InvalidRatingRefused ==
    /\ [](\A i \in DOMAIN reading_history : ~InvalidRating(reading_history[i].rating))
    /\ [][\A b \in ApiBooks, u \in ApiUsers, r \in ApiRatings :
            (InvalidRating(r) /\ api_return_book(b, u, r)) =>
                /\ response'.status # 200
                /\ UNCHANGED <<reading_history, user_stats>>]_vars

----------------------------------------------------------------------------
(* Claims about the peer bonus, the order and the size of the list.        *)

\* The user ids with a reading_history row.
Raters == {reading_history[i].user_id : i \in DOMAIN reading_history}

\* user_id has a row for book_id with a rating of 4 or more.
Liked(user_id, book_id) ==
    \E i \in DOMAIN reading_history :
        /\ reading_history[i].user_id = user_id
        /\ reading_history[i].book_id = book_id
        /\ reading_history[i].rating # None
        /\ reading_history[i].rating[1] >= 4

\* The other readers who liked at least one book user_id liked.
DistinctPeers(user_id) ==
    {v \in Raters \ {user_id} :
        \E b \in BookIds : Liked(user_id, b) /\ Liked(v, b)}

\* C14 (SpecPeer): the peer bonus added to a reader's candidates is 0.5
\* times the number of distinct other readers who share with the reader at
\* least one book both rated 4 or more; a peer sharing several such books
\* counts once.
C14_PeerBonus ==
    \A u \in Children : CandidateBooks(u) # {} =>
        FracEq(PeerTerm(u), Frac(Cardinality(DistinctPeers(u)), 2))

\* The place of a book in the candidate pool.
PoolIndex(pool, book_id) == CHOOSE i \in DOMAIN pool : pool[i] = book_id

\* C15 (SpecPeer): the list recommend_books returns is in non-increasing
\* order of score, and two candidates with equal scores stand in the order
\* they had in the candidate pool.
C15_SortedStable ==
    \A u \in ListedUsers : \A pool \in CandidatePools(u) : \A limit \in Limits :
        LET recs == recommend_books(u, limit, pool)
        IN  \A i, j \in DOMAIN recs : i < j =>
                /\ ~FracLess(recs[i].score, recs[j].score)
                /\ FracEq(recs[i].score, recs[j].score) =>
                      PoolIndex(pool, recs[i].book_id) < PoolIndex(pool, recs[j].book_id)

\* A list where the sort moved a candidate to the front and left two
\* candidates with equal scores in pool order, the larger book id first.
C15_Witness ==
    \E u \in Children : \E pool \in CandidatePools(u) :
        LET recs == recommend_books(u, MaxLimit, pool)
        IN  /\ Len(recs) >= 3
            /\ PoolIndex(pool, recs[1].book_id) > 1
            /\ \E i, j \in DOMAIN recs :
                  /\ i < j
                  /\ FracEq(recs[i].score, recs[j].score)
                  /\ recs[i].book_id > recs[j].book_id
                  /\ FracLess(recs[i].score, recs[1].score)

\* C16 (SpecPool): for every limit >= 0 recommend_books returns exactly
\* min(limit, size of the candidate pool) candidates of the pool, none of
\* them scoring less than a candidate left out; an empty pool gives the
\* empty list and no error.
C16_TopLimit ==
    \A u \in Children : \A pool \in CandidatePools(u) : \A limit \in 0..MaxLimit :
        LET recs   == recommend_books(u, limit, pool)
            listed == {recs[i].book_id : i \in DOMAIN recs}
        IN  /\ ~RecommendRaises(u)
            /\ Len(recs) = Min(limit, Len(pool))
            /\ listed \subseteq CandidateBooks(u)
            /\ Cardinality(listed) = Len(recs)
            /\ \A b \in CandidateBooks(u) \ listed : \A i \in DOMAIN recs :
                  ~FracLess(recs[i].score, BookScore(u, b))
            /\ pool = <<>> => recs = <<>>

\* One reader's pool is empty, another's holds four candidates of which
\* the top two are asked for, the first scoring more than the second.
C16_Witness ==
    /\ CandidateBooks(5) = {}
    /\ recommend_books(5, MaxLimit, <<>>) = <<>>
    /\ \E u \in Children : \E pool \in CandidatePools(u) :
          LET recs == recommend_books(u, 2, pool)
          IN  /\ Len(pool) = 4
              /\ Len(recs) = 2
              /\ FracLess(recs[2].score, recs[1].score)

----------------------------------------------------------------------------
(* Claims about the borrowing records.                                     *)

\* C17 (SpecLib): after any borrow_book and return_book calls, also a
\* return by a reader who does not hold the book, every book has at most one
\* active borrowing record, and a book marked available has none.
C17_OneActiveBorrower ==
    \A b \in BookIds :
        /\ Cardinality(ActiveRecords(b)) <= 1
        /\ available[b] => ActiveRecords(b) = {}

----------------------------------------------------------------------------
(* Claims about the streak as a count of days.                             *)

\* The days on which the reader has a completion event: the completed_date
\* of the reader's reading_history rows.
EventDays(user_id) ==
    {reading_history[i].completed_date :
        i \in {j \in DOMAIN reading_history : reading_history[j].user_id = user_id}}

RECURSIVE RunEndingAt(_, _)
\* The number of consecutive days of S that end with day d.
RunEndingAt(S, d) == IF d \in S THEN 1 + RunEndingAt(S, d - 1) ELSE 0

\* C18 (SpecApi): after any rated returns on non-decreasing dates, from the
\* zero-valued record, current_streak is the number of consecutive distinct
\* days ending at last_activity_date on which the reader has a completion
\* event; several events on one day count as one day.
C18_StreakCountsDays ==
    \A u \in DOMAIN user_stats :
        IF user_stats[u].last_activity_date = None
        THEN user_stats[u].current_streak = 0 /\ EventDays(u) = {}
        ELSE /\ user_stats[u].last_activity_date[1] \in EventDays(u)
             /\ \A d \in EventDays(u) : d <= user_stats[u].last_activity_date[1]
             /\ user_stats[u].current_streak =
                    RunEndingAt(EventDays(u), user_stats[u].last_activity_date[1])

\* A reader with three completion events on two consecutive days.
C18_Witness ==
    \E u \in DOMAIN user_stats :
        /\ user_stats[u].total_books_read = 3
        /\ Cardinality(EventDays(u)) = 2
        /\ user_stats[u].current_streak = 2

\* C20 (SpecStreak): a call on the day of last_activity_date leaves
\* current_streak and longest_streak as they were, adds 1 to
\* total_books_read and adds 10 + 2 * current_streak to total_points.
C20_SameDay ==
    [][\A u \in DOMAIN user_stats :
          (StatsChanged(u) /\ user_stats[u].last_activity_date = Some(today)) =>
              LET old == user_stats[u]
                  new == user_stats'[u]
              IN  /\ new.current_streak = old.current_streak
                  /\ new.longest_streak = old.longest_streak
                  /\ new.total_books_read = old.total_books_read + 1
                  /\ new.total_points =
                        old.total_points + 10 + 2 * old.current_streak]_vars

\* A reader with completions on days 1 and 2 and a second one on day 2:
\* 12 + 14 + 14 points, the streak still 2.
C20_Witness ==
    \E u \in DOMAIN user_stats :
        /\ user_stats[u].total_books_read = 3
        /\ user_stats[u].current_streak = 2
        /\ user_stats[u].longest_streak = 2
        /\ user_stats[u].total_points = 40
        /\ user_stats[u].last_activity_date = Some(2)

----------------------------------------------------------------------------
(* Claims about concurrent borrowing.                                      *)

\* C19 (SpecBorrow): when two concurrent borrow_book calls for the same
\* available book have both returned, at most one of them succeeded and the
\* book has exactly one active borrowing record.
C19_OneBorrowWins ==
    \A p, q \in Procs : \A b \in BookIds :
        (/\ p # q
         /\ calls[p].pc = "done" /\ calls[p].book_id = b
         /\ calls[q].pc = "done" /\ calls[q].book_id = b)
        => /\ ~(calls[p].value[1] /\ calls[q].value[1])
           /\ Cardinality(ActiveRecords(b)) = 1

----------------------------------------------------------------------------
(* Claims about what drives the streak engine.                             *)

\* The number of the reader's reading_history rows that carry a rating.
RatedEvents(user_id) ==
    Cardinality({i \in DOMAIN reading_history :
        reading_history[i].user_id = user_id /\ reading_history[i].rating # None})

\* C21 (SpecEvents): the stats update runs once for every completion event
\* with a rating and never otherwise: a reader's total_books_read is the
\* number of rated reading_history rows of that reader, and a return without
\* a rating changes neither reading_history nor user_stats.
C21_OncePerRatedEvent ==
    /\ [](\A u \in DOMAIN user_stats :
            user_stats[u].total_books_read = RatedEvents(u))
    /\ [][\A b \in EventBooks, u \in EventUsers :
            api_return_book(b, u, None) =>
                UNCHANGED <<reading_history, user_stats>>]_vars

\* C22 (SpecEvents): when a rated book is returned by a user without a
\* user_stats row, the stats update fails and the caller is told so: the
\* answer is never a success that reports the stats as updated.
C22_FailureReported ==
    [][\A b \in EventBooks, u \in EventUsers, r \in EventRatings :
          (Truthy(r) /\ u \notin DOMAIN user_stats /\ api_return_book(b, u, r)) =>
              ~(response'.status = 200 /\ response'.value.stats_updated)]_vars

----------------------------------------------------------------------------
(* Claims about the badges.                                                *)

\* The badge ids whose predicate holds on (total_books, current_streak).
EarnedBadges(total_books, current_streak) ==
    {id \in {"first_book", "week_streak", "month_streak", "bookworm", "scholar", "genius"} :
        \/ id = "first_book"   /\ total_books >= 1
        \/ id = "week_streak"  /\ current_streak >= 7
        \/ id = "month_streak" /\ current_streak >= 30
        \/ id = "bookworm"     /\ total_books >= 10
        \/ id = "scholar"      /\ total_books >= 25
        \/ id = "genius"       /\ total_books >= 50}

\* The members of a list, and whether no member occurs twice.
Members(seq) == {seq[i] : i \in DOMAIN seq}

NoRepeat(seq) == Cardinality(Members(seq)) = Len(seq)

\* C23 (SpecBadges): after each successful call the stored badges are the
\* badges before the call together with every badge whose predicate holds
\* on the new (total_books_read, current_streak); the new_badges returned
\* are exactly the stored ids that were not stored before; no id is stored
\* twice.
C23_BadgesUnion ==
    [][\A u \in DOMAIN user_stats : StatsChanged(u) =>
          LET old == user_stats[u]
              new == user_stats'[u]
          IN  /\ Members(new.badges) =
                    Members(old.badges)
                        \cup EarnedBadges(new.total_books_read, new.current_streak)
              /\ response'.value # None
              /\ Members(response'.value[1].new_badges) =
                    Members(new.badges) \ Members(old.badges)
              /\ NoRepeat(new.badges)
              /\ NoRepeat(response'.value[1].new_badges)]_vars

\* The tenth book on the seventh day of a streak: two badges in one call.
C23_Witness ==
    /\ response.op = "update_reading_stats"
    /\ response.value # None
    /\ Members(response.value[1].new_badges) = {"week_streak", "bookworm"}
    /\ user_stats[BadgeUser].total_books_read = 10
    /\ user_stats[BadgeUser].current_streak = 7

\* C29 (SpecBadges): the stored badges are determined by the counters:
\* first_book iff total_books_read >= 1, bookworm iff >= 10, scholar
\* iff >= 25, genius iff >= 50, week_streak iff longest_streak >= 7 and
\* month_streak iff longest_streak >= 30.
C29_BadgesFromCounters ==
    \A u \in DOMAIN user_stats :
        LET st == user_stats[u]
        IN  /\ Contains(st.badges, "first_book")   <=> st.total_books_read >= 1
            /\ Contains(st.badges, "bookworm")     <=> st.total_books_read >= 10
            /\ Contains(st.badges, "scholar")      <=> st.total_books_read >= 25
            /\ Contains(st.badges, "genius")       <=> st.total_books_read >= 50
            /\ Contains(st.badges, "week_streak")  <=> st.longest_streak >= 7
            /\ Contains(st.badges, "month_streak") <=> st.longest_streak >= 30

\* A reader whose eight-day streak was broken before the tenth book: the
\* week_streak badge stays with a current streak of 1 or 2.
C29_Witness ==
    \E u \in DOMAIN user_stats :
        /\ user_stats[u].total_books_read = 10
        /\ user_stats[u].longest_streak = 8
        /\ user_stats[u].current_streak <= 2
        /\ Contains(user_stats[u].badges, "week_streak")
        /\ Contains(user_stats[u].badges, "bookworm")

----------------------------------------------------------------------------
(* Claims about what the queries leave alone.                              *)

\* The persisted state: the catalog's available column (the rest of the
\* catalog is fixed), the borrowing records, the history and the stats.
Persisted == <<available, borrowing_records, reading_history, user_stats>>

\* C24 (SpecQuery): recommend_books, find_similar_books, recommend_by_genre
\* and get_leaderboard change no persisted state: the catalog, the borrowing
\* records, the reading history and every stats row are after the call what
\* they were before it.
C24_QueriesReadOnly ==
    [][/\ \A u \in QueryUsers, limit \in QueryLimits :
            QueryRecommend(u, limit) => UNCHANGED Persisted
       /\ \A b \in QueryBooks, limit \in QueryLimits :
            QuerySimilar(b, limit) => UNCHANGED Persisted
       /\ \A u \in QueryUsers, g \in QueryGenres, limit \in QueryLimits :
            QueryByGenre(u, g, limit) => UNCHANGED Persisted
       /\ \A limit \in QueryLimits :
            QueryLeaderboard("Green Valley", limit) => UNCHANGED Persisted]_vars

\* recommend_books has just answered with a list, with a book borrowed
\* again after a rated return and the stats of its reader updated.
C24_Witness ==
    /\ response.op = "recommend_books"
    /\ ~response.raised
    /\ Len(response.value) >= 1
    /\ reading_history # <<>>
    /\ Len(borrowing_records) = 2
    /\ \E u \in DOMAIN user_stats : user_stats[u].total_points > 0

----------------------------------------------------------------------------
(* Claims about calls of different processes.                              *)

\* The row one update_reading_stats(u) call leaves when it reads stats on
\* day d1 and writes on day d2, with no other call in between.
SerialOne(stats, u, d1, d2) == WrittenStats(ComputeStats(u, stats, d1), d2)

\* Process p has read the row of its reader and not yet written.
Computed(p) == calls[p].pc = "computed"

\* C25 (SpecConc): an update_reading_stats call for reader A leaves the
\* row of every other reader B unchanged, and when one call for A and one
\* call for B have interleaved in any way and both returned, the rows of A
\* and B are the rows the two calls leave when run one after the other.
C25_ReadersIndependent ==
    /\ [][\A p \in Procs :
            /\ (Computed(p) /\ WriteStats(p)) =>
                  \A v \in DOMAIN user_stats \ {calls[p].user_id} :
                      user_stats'[v] = user_stats[v]
            /\ \A u \in ConcUsers : ReadStats(p, u) => UNCHANGED user_stats]_vars
    /\ [](\A p, q \in Procs :
            (/\ calls[p].pc = "done" /\ calls[p].user_id \in DOMAIN user_stats
             /\ calls[q].pc = "done" /\ calls[q].user_id \in DOMAIN user_stats
             /\ calls[p].user_id # calls[q].user_id)
            => \A u \in {calls[p].user_id, calls[q].user_id} :
                  \E d1, d2 \in 1..today :
                      d1 <= d2 /\ user_stats[u] = SerialOne(ZeroStats, u, d1, d2))

\* Two calls for two different readers have both returned, their writes
\* made on different days.
C25_Witness ==
    /\ calls["p1"].pc = "done" /\ calls["p2"].pc = "done"
    /\ calls["p1"].user_id = 2 /\ calls["p2"].user_id = 3
    /\ user_stats[2].total_books_read = 1
    /\ user_stats[3].total_books_read = 1
    /\ user_stats[2].last_activity_date # user_stats[3].last_activity_date

\* C26 (SpecConc): a stats write that conflicts with a concurrent update of
\* the same reader is noticed: when the row is no longer the one the call
\* read, the call either writes a row that counts the other update too (a
\* retry) or returns a failure and leaves the row alone; it never overwrites
\* the other update unnoticed.
C26_ConflictNoticed ==
    [][\A p \in Procs :
          (/\ Computed(p)
           /\ user_stats[calls[p].user_id].total_books_read # calls[p].c.total_books - 1
           /\ WriteStats(p))
          => \/ user_stats'[calls[p].user_id].total_books_read
                   > user_stats[calls[p].user_id].total_books_read
             \/ calls'[p].value = None /\ UNCHANGED user_stats]_vars

----------------------------------------------------------------------------
(* Claims about the life of a stats row.                                   *)

\* C27 (SpecReg): the user_stats row register_child creates has 0 books, a
\* current and a longest streak of 0, 0 points, no badges and no last
\* activity date; afterwards a step changes the row only if it is an
\* update_reading_stats call for its reader: borrow_book, return_book and
\* the registration of another child leave it as it is, and no step
\* removes a row.
C27_RowLife ==
    [][/\ \A u \in RegChildren, parent \in RegParents :
            (parent \in UserIds /\ register_child(u, parent)) =>
                /\ u \notin DOMAIN user_stats
                /\ user_stats'[u].total_books_read = 0
                /\ user_stats'[u].current_streak = 0
                /\ user_stats'[u].longest_streak = 0
                /\ user_stats'[u].total_points = 0
                /\ user_stats'[u].badges = <<>>
                /\ user_stats'[u].last_activity_date = None
       /\ DOMAIN user_stats \subseteq DOMAIN user_stats'
       /\ \A u \in DOMAIN user_stats :
            user_stats'[u] # user_stats[u] => update_reading_stats(u)
       /\ \A b \in RegBooks, u \in RegChildren :
            borrow_book(b, u, DefaultDays) => UNCHANGED user_stats
       /\ \A b \in RegBooks, u \in RegChildren, r \in LibRatings :
            return_book(b, u, r) => UNCHANGED user_stats]_vars

\* The second child has just been registered, next to the first child's
\* row, which holds completions, while a book is borrowed and another
\* return has been rated.
C27_Witness ==
    /\ response.op = "register_child"
    /\ response.value # None
    /\ \E u \in DOMAIN user_stats : user_stats[u].total_books_read >= 1
    /\ \E u \in DOMAIN user_stats : user_stats[u].total_points = 0
    /\ borrowing_records # <<>>
    /\ reading_history # <<>>

----------------------------------------------------------------------------
(* Claims about the counters of one row.                                   *)

\* C28 (SpecStreak): in every state a row is in after one or more
\* successful update_reading_stats calls made one after the other on days
\* that never go back, 1 <= current_streak <= longest_streak <=
\* total_books_read, and total_points >= 12 * total_books_read.
C28_CounterOrder ==
    \A u \in DOMAIN user_stats :
        user_stats[u].total_books_read >= 1 =>
            /\ 1 <= user_stats[u].current_streak
            /\ user_stats[u].current_streak <= user_stats[u].longest_streak
            /\ user_stats[u].longest_streak <= user_stats[u].total_books_read
            /\ user_stats[u].total_points >= 12 * user_stats[u].total_books_read

\* A row after a streak, same-day repeats and a reset: the three counters
\* differ and the points are above the least.
C28_Witness ==
    \E u \in DOMAIN user_stats :
        /\ user_stats[u].current_streak = 1
        /\ user_stats[u].longest_streak >= 3
        /\ user_stats[u].total_books_read > user_stats[u].longest_streak + 1
        /\ user_stats[u].total_points > 12 * user_stats[u].total_books_read

----------------------------------------------------------------------------
(* Claims about the peer term within one list.                             *)

\* The score of a candidate without the peer term: the genre weight, the
\* author weight and the community average.
BaseScore(user_id, book_id) ==
    LET profile == get_user_reading_profile(user_id)
    IN  FracAdd(FracAdd(GenreTerm(profile, books[book_id].genre),
                        AuthorTerm(profile, books[book_id].author)),
                AverageTerm(book_id))

\* The candidates of a pool in the order their base scores alone give.
BaseOrder(user_id, pool) ==
    LET recs == SortByScore([i \in DOMAIN pool |->
                    [book_id |-> pool[i], score |-> BaseScore(user_id, pool[i])]])
    IN  [i \in DOMAIN recs |-> recs[i].book_id]

\* C30 (SpecPeer): within one recommend_books call the peer bonus is one
\* number for all candidates, the score of each minus its genre, author and
\* average terms, and so the candidates are returned in the order the
\* genre weight, the author weight and the community average alone give.
C30_PeerBonusCommon ==
    \A u \in Children : \A pool \in CandidatePools(u) :
        LET recs == recommend_books(u, Len(pool), pool)
        IN  /\ \A i, j \in DOMAIN recs :
                  FracEq(FracAdd(recs[i].score, BaseScore(u, recs[j].book_id)),
                         FracAdd(recs[j].score, BaseScore(u, recs[i].book_id)))
            /\ \A i \in DOMAIN recs :
                  FracEq(recs[i].score,
                         FracAdd(BaseScore(u, recs[i].book_id), PeerTerm(u)))
            /\ [i \in DOMAIN recs |-> recs[i].book_id] = BaseOrder(u, pool)

\* A reader with a peer bonus above 0 and two candidates of different base
\* scores, one of them liked by another reader, fetched in the other order.
C30_Witness ==
    \E u \in Children : \E pool \in CandidatePools(u) :
        LET recs == recommend_books(u, Len(pool), pool)
        IN  /\ FracLess(Frac(0, 1), PeerTerm(u))
            /\ Len(recs) >= 2
            /\ FracLess(recs[2].score, recs[1].score)
            /\ PoolIndex(pool, recs[1].book_id) > PoolIndex(pool, recs[2].book_id)
            /\ \E i \in DOMAIN recs : \E v \in Children \ {u} :
                  Liked(v, recs[i].book_id)

============================================================================
